---- MODULE Spec2Model ----
(***************************************************************************)
(* Model of src/main.py: the scraping driver main(), the three page        *)
(* adapters, the field normalizers format_price / strptime, and the two    *)
(* output sinks write_csv / post_books.                                    *)
(*                                                                         *)
(* Text is a sequence of one-character strings.  A fetched page is the     *)
(* list of catalogue entries its markup holds (each with its raw isbn,     *)
(* price text and date text) plus whether a <p> holds the "no results"     *)
(* phrase.  The web is the environment: every get() either raises or       *)
(* returns a response chosen from a bounded set of pages.                  *)
(***************************************************************************)
EXTENDS Integers, Sequences, FiniteSets, TLC

VARIABLES
    pc,          \* position of main: "oreilly", "shoeisha", "gihyo", "output", "post", or terminal
    args_post,   \* args.post: None or the destination URL
    order,       \* iteration order of the set gihyo_category_params in this process
    endless,     \* environment: the sites ignore the page number and always serve one entry
    ci,          \* index in order of the category being paginated
    page,        \* loop variable page
    url,         \* last URL requested with get()
    response,    \* last response returned by get()
    transport,   \* the last get()/post() call and its outcome: "ok" or the exception raised
    result,      \* result: list[Book]
    fetches,     \* number of get() calls issued
    printed,     \* kinds of lines written to stdout/stderr
    exitStatus,  \* process exit status, Running while main executes
    sink,        \* calls of write_csv / post_books made by main, with their argument
    csv,         \* lines of tech-books.csv, empty while not written
    posts,       \* number of post() calls issued by post_books
    request,     \* JSON payload of the last post()
    post_status, \* status code of the last post() response
    currency,    \* format_price check: argument currency
    pattern,     \* format_price check: argument pattern
    formatted    \* format_price check: return value, Pending before the call

vars == <<pc, args_post, order, endless, ci, page, url, response, transport, result,
          fetches, printed, exitStatus, sink, csv, posts, request, post_status,
          currency, pattern, formatted>>

\* None, as a value no text, list or URL equals
None == <<"None">>
\* no exit status yet
Running == 0 - 1
\* format_price has not returned
Pending == <<"pending">>

(***************************************************************************)
(* Bounds of the model.                                                    *)
(***************************************************************************)
\* records the finite-catalogue web lets a run accumulate
MaxBooks == 2
\* listing pages a finite-catalogue site has before it reports its end
MaxCatalog == 2
\* length of the arbitrary price texts format_price is applied to
MaxPriceLen == 5
\* number of ",ddd" groups of the well-formed price texts
MaxGroups == 2

(***************************************************************************)
(* Program constants.                                                      *)
(***************************************************************************)
ShoeishaPages == 501
GihyoPages == 101
HTTP_CREATED == 201
HTTP_CONFLICT == 409

OREILLY_BASE_URL == "https://www.oreilly.co.jp/catalog/"
SHOEISHA_BASE_URL == "https://www.shoeisha.co.jp/"
GIHYO_BASE_URL == "https://gihyo.jp/"

gihyo_category_params ==
    {"0602", "0611", "0603", "0601", "0604", "0605", "0612",
     "0607", "0608", "0609", "0701", "0704", "0705"}

\* the order in which the source lists the categories
SourceOrder ==
    <<"0602", "0611", "0603", "0601", "0604", "0605", "0612",
      "0607", "0608", "0609", "0701", "0704", "0705">>

Rotate(s, k) == [i \in 1..Len(s) |-> s[((i - 1 + k) % Len(s)) + 1]]
Reverse(s) == [i \in 1..Len(s) |-> s[Len(s) + 1 - i]]

\* A Python set iterates in an order fixed per process but unspecified:
\* three candidate orders.
CategoryOrders == {SourceOrder, Rotate(SourceOrder, 5), Reverse(SourceOrder)}

(***************************************************************************)
(* format_price: regex search, int(), babel format_currency.               *)
(***************************************************************************)
Digits == {"0", "1", "2", "3", "4", "5", "6", "7", "8", "9"}

\* the two patterns the adapters pass: r"(\d{1,3}(,\d{3})*)" and r"(\d{1,3}(,\d{3})*)円"
PLAIN_PATTERN == [yen |-> FALSE]
YEN_PATTERN == [yen |-> TRUE]
Patterns == {PLAIN_PATTERN, YEN_PATTERN}

IsDigitAt(s, i) == i >= 1 /\ i <= Len(s) /\ s[i] \in Digits

\* how many characters \d{1,3} can take at position i: 0 to 3
HeadMax(s, i) ==
    IF ~IsDigitAt(s, i) THEN 0
    ELSE IF ~IsDigitAt(s, i + 1) THEN 1
    ELSE IF ~IsDigitAt(s, i + 2) THEN 2
    ELSE 3

\* how many times (,\d{3}) can repeat at position i
RECURSIVE GroupMax(_, _)
GroupMax(s, i) ==
    IF i <= Len(s) /\ s[i] = "," /\ IsDigitAt(s, i + 1) /\ IsDigitAt(s, i + 2)
           /\ IsDigitAt(s, i + 3)
    THEN 1 + GroupMax(s, i + 4)
    ELSE 0

\* what follows the group in the pattern matches at position j
SuffixMatches(s, j, pat) == pat.yen => (j <= Len(s) /\ s[j] = "円")

\* the numbers of groups with which the pattern matches at i with an n-digit head
GroupChoices(s, i, n, pat) ==
    {k \in 0..GroupMax(s, i + n) : SuffixMatches(s, i + n + 4 * k, pat)}

Max(S) == CHOOSE x \in S : \A y \in S : y <= x

\* length of group(1) of the match at i, 0 when the pattern does not match there;
\* the greedy quantifiers backtrack: the longest head first, then the most groups
MatchLen(s, i, pat) ==
    LET heads == {n \in 1..HeadMax(s, i) : GroupChoices(s, i, n, pat) # {}}
    IN IF heads = {} THEN 0
       ELSE Max(heads) + 4 * Max(GroupChoices(s, i, Max(heads), pat))

\* re.search scans for the leftmost position with a match
RECURSIVE SearchFrom(_, _, _)
SearchFrom(pat, s, i) ==
    IF i > Len(s) THEN None
    ELSE IF MatchLen(s, i, pat) > 0 THEN SubSeq(s, i, i + MatchLen(s, i, pat) - 1)
    ELSE SearchFrom(pat, s, i + 1)

\* re.search(pattern, currency).group(1), None when there is no match
regex_search(pat, s) == SearchFrom(pat, s, 1)

\* str.replace(",", "")
RECURSIVE RemoveCommas(_)
RemoveCommas(s) ==
    IF s = <<>> THEN <<>>
    ELSE IF Head(s) = "," THEN RemoveCommas(Tail(s))
    ELSE <<Head(s)>> \o RemoveCommas(Tail(s))

\* Python's int is unbounded: an int is modelled by its decimal digits without
\* leading zeros.  int(str) of a string of decimal digits
RECURSIVE ParseInt(_)
ParseInt(s) ==
    IF Len(s) > 1 /\ Head(s) = "0" THEN ParseInt(Tail(s)) ELSE s

\* str(n) for n >= 0
IntToStr(n) == n

\* decimal digits grouped by three from the right
RECURSIVE GroupThousands(_)
GroupThousands(d) ==
    IF Len(d) <= 3 THEN d
    ELSE GroupThousands(SubSeq(d, 1, Len(d) - 3)) \o <<",">> \o SubSeq(d, Len(d) - 2, Len(d))

\* babel format_currency(n, "JPY", locale="ja_JP"): pattern "¤#,##0", no decimals
format_currency(n) == <<"￥">> \o GroupThousands(IntToStr(n))

\* the text up to its first comma
RECURSIVE UpToComma(_)
UpToComma(s) ==
    IF s = <<>> \/ Head(s) = "," THEN <<>>
    ELSE <<Head(s)>> \o UpToComma(Tail(s))

\* mutant: the match is cut at its first separator instead of having them removed
format_price_cut(cur, pat) ==
    LET matched == regex_search(pat, cur)
    IN IF matched # None THEN format_currency(ParseInt(UpToComma(matched)))
       ELSE None

format_price(cur, pat) ==
    LET matched == regex_search(pat, cur)
    IN IF matched # None THEN format_currency(ParseInt(RemoveCommas(matched)))
       ELSE None

\* format_price prints a diagnostic exactly when it returns None
PriceFailed(cur, pat) == regex_search(pat, cur) = None

(***************************************************************************)
(* datetime.strptime.  A date text is the convention it is written in and   *)
(* the numbers it holds; strptime raises ValueError when the text is not    *)
(* in the format's convention or names no calendar day.                     *)
(***************************************************************************)
ValueError == [raised |-> "ValueError"]

OREILLY_DATE_FORMAT == "%Y/%m/%d"
\* "%Y年%m月%d日"
SHOEISHA_DATE_FORMAT == "%Y(nen)%m(gatsu)%d(nichi)"
\* "%Y年%m月%d日発売"
GIHYO_DATE_FORMAT == "%Y(nen)%m(gatsu)%d(nichi)(hatsubai)"

IsLeap(y) == (y % 4 = 0 /\ y % 100 # 0) \/ y % 400 = 0
DaysInMonth(y, m) ==
    IF m = 2 THEN (IF IsLeap(y) THEN 29 ELSE 28)
    ELSE IF m \in {4, 6, 9, 11} THEN 30 ELSE 31
IsCalendarDate(y, m, d) ==
    /\ y >= 1 /\ y <= 9999
    /\ m >= 1 /\ m <= 12
    /\ d >= 1 /\ d <= DaysInMonth(y, m)

strptime(text, fmt) ==
    IF text.style = fmt /\ IsCalendarDate(text.y, text.m, text.d)
    THEN [year |-> text.y, month |-> text.m, day |-> text.d]
    ELSE ValueError

(***************************************************************************)
(* The three adapters.  A Book carries isbn, price, published_at and       *)
(* publisher; title and url take no part in any decision of the driver or  *)
(* the sinks and are left out, as are pages whose markup lacks an element  *)
(* the adapter reads.                                                      *)
(***************************************************************************)
PublisherOf(site) ==
    CASE site = OREILLY_BASE_URL -> "O'Reilly Japan"         \* "オライリー・ジャパン"
      [] site = SHOEISHA_BASE_URL -> "Shoeisha"                \* "翔泳社"
      [] site = GIHYO_BASE_URL -> "Gijutsu-Hyoronsha"          \* "技術評論社"

DateFormatOf(site) ==
    CASE site = OREILLY_BASE_URL -> OREILLY_DATE_FORMAT
      [] site = SHOEISHA_BASE_URL -> SHOEISHA_DATE_FORMAT
      [] site = GIHYO_BASE_URL -> GIHYO_DATE_FORMAT

PricePatternOf(site) ==
    IF site = OREILLY_BASE_URL THEN PLAIN_PATTERN ELSE YEN_PATTERN

\* Book(...) evaluates its keyword arguments in the order written:
\* price before published_at in analyze_oreilly_books and analyze_gihyo_books,
\* published_at before price in analyze_shoeisha_books
PriceBeforeDate(site) == site # SHOEISHA_BASE_URL

MakeBook(site, row) ==
    [isbn |-> row.isbn,
     price |-> format_price(row.price, PricePatternOf(site)),
     published_at |-> strptime(row.date, DateFormatOf(site)),
     publisher |-> PublisherOf(site)]

\* rows whose date text makes strptime raise
BadDates(site, rows) ==
    {i \in 1..Len(rows) : strptime(rows[i].date, DateFormatOf(site)) = ValueError}

\* mutant: an entry whose date does not parse is skipped
ExtractSkipping(site, rows) ==
    LET ok(row) == strptime(row.date, DateFormatOf(site)) # ValueError
        kept == SelectSeq(rows, ok)
    IN [raised |-> FALSE,
        books |-> [i \in 1..Len(kept) |-> MakeBook(site, kept[i])],
        price_failed |-> \E i \in 1..Len(rows) :
                            PriceFailed(rows[i].price, PricePatternOf(site))]

\* the loop over the page's entries: the list built, or the exception that
\* leaves the adapter, and whether format_price printed its diagnostic
Extract(site, rows) ==
    LET bad == BadDates(site, rows)
        stop == IF bad = {} THEN Len(rows) + 1 ELSE CHOOSE i \in bad : \A j \in bad : i <= j
        priced == {i \in 1..Len(rows) : i < stop \/ (i = stop /\ PriceBeforeDate(site))}
    IN [raised |-> bad # {},
        books |-> IF bad = {} THEN [i \in 1..Len(rows) |-> MakeBook(site, rows[i])] ELSE <<>>,
        price_failed |-> \E i \in priced : PriceFailed(rows[i].price, PricePatternOf(site))]

analyze_oreilly_books(html_text) == Extract(OREILLY_BASE_URL, html_text.rows)
analyze_shoeisha_books(html_text) == Extract(SHOEISHA_BASE_URL, html_text.rows)
analyze_gihyo_books(html_text) == Extract(GIHYO_BASE_URL, html_text.rows)

\* mutant: the end of the listing is taken from the absence of entries
no_entries_found(html_text) == html_text.rows = <<>>

\* a <p> of the page holds the phrase "該当の書籍は見つかりませんでした。"
no_shoeisha_items_found(html_text) == html_text.phrase

(***************************************************************************)
(* The web.  The pages a site may serve: entries with a price text that    *)
(* matches or not, and a date text that parses or not.                     *)
(***************************************************************************)
OREILLY_PRICE == <<"3", ",", "5", "2", "0">>
YEN_PRICE == <<"3", ",", "9", "6", "0", "円">>
\* a price text without digits, such as "お問い合わせください"
NO_PRICE == <<"x", "x">>

PriceOf(site) == IF site = OREILLY_BASE_URL THEN OREILLY_PRICE ELSE YEN_PRICE

\* a date text in another site's convention
OtherFormatOf(site) ==
    IF site = GIHYO_BASE_URL THEN SHOEISHA_DATE_FORMAT ELSE GIHYO_DATE_FORMAT

GoodRow(site) ==
    [isbn |-> "good", price |-> PriceOf(site),
     date |-> [style |-> DateFormatOf(site), y |-> 2023, m |-> 8, d |-> 10]]
NoPriceRow(site) ==
    [isbn |-> "noprice", price |-> NO_PRICE,
     date |-> [style |-> DateFormatOf(site), y |-> 2023, m |-> 1, d |-> 20]]
\* 30 February: the right convention, no calendar day
BadDateRow(site) ==
    [isbn |-> "baddate", price |-> NO_PRICE,
     date |-> [style |-> DateFormatOf(site), y |-> 2023, m |-> 2, d |-> 30]]
OtherStyleRow(site) ==
    [isbn |-> "otherstyle", price |-> PriceOf(site),
     date |-> [style |-> OtherFormatOf(site), y |-> 2023, m |-> 8, d |-> 10]]

RowLists(site) ==
    {<<>>,
     <<GoodRow(site)>>,
     <<GoodRow(site), NoPriceRow(site)>>,
     <<GoodRow(site), BadDateRow(site)>>,
     <<OtherStyleRow(site)>>}

\* the no-results phrase is Shoeisha's
Pages(site) ==
    [rows : RowLists(site),
     phrase : IF site = SHOEISHA_BASE_URL THEN BOOLEAN ELSE {FALSE}]

\* the body of an error response: no entry, no phrase
ErrorPage == [rows |-> <<>>, phrase |-> FALSE]

\* the page an endless site serves for every page number
EndlessPage(site) == [rows |-> <<GoodRow(site)>>, phrase |-> FALSE]

\* a page after which the driver asks the site for no further page
EndsListing(site, pg) ==
    CASE site = OREILLY_BASE_URL -> TRUE
      [] site = SHOEISHA_BASE_URL -> pg.phrase
      [] site = GIHYO_BASE_URL -> pg.rows = <<>>

\* the pages get() may return for page number p of a site: any page while the
\* budget of records lasts, and any page with an unparsable date
Served(site, p) ==
    IF endless THEN {EndlessPage(site)}
    ELSE {pg \in Pages(site) :
            /\ Len(result) + Len(pg.rows) <= MaxBooks \/ BadDates(site, pg.rows) # {}
            /\ p >= MaxCatalog => EndsListing(site, pg)}

\* the responses get() may return: a page with status 200, or, from a site with
\* a finite catalogue that still has pages, an error page with status 404
Responses(site, p) ==
    [status_code : {200}, text : Served(site, p)]
        \cup (IF ~endless /\ p < MaxCatalog
              THEN {[status_code |-> 404, text |-> ErrorPage]} ELSE {})

\* requests' get() returns a response whatever its status; only raise_for_status(),
\* which main never calls, would turn a 4xx/5xx status into an HTTPError
IsSuccess(status_code) == status_code >= 200 /\ status_code < 300

\* RequestException subclasses get()/post() raise: no connection, or no answer
\* within timeout=30
RequestExceptions == {"ConnectionError", "Timeout"}

\* status codes the submission endpoint answers with
PostStatuses == {HTTP_CREATED, HTTP_CONFLICT, 500}

NoResponse == [status_code |-> 0, text |-> ErrorPage]
NoUrl == [site |-> "", category |-> "", page |-> 0]
NoRequest == [isbn |-> "", price |-> None, publishedAt |-> None, publisher |-> ""]

(***************************************************************************)
(* main                                                                    *)
(***************************************************************************)
\* mutant: the handler prints and lets the run go on to its output
RequestExceptionIgnored ==
    [pc |-> "output", exitStatus |-> Running, line |-> "RequestException error occurred"]

\* except RequestException as req_err: print(...); exit(1)
RequestExceptionHandler ==
    [pc |-> "aborted", exitStatus |-> 1, line |-> "RequestException error occurred"]

\* an exception main does not catch ends the interpreter with a traceback and status 1
UncaughtException ==
    [pc |-> "crashed", exitStatus |-> 1, line |-> "Traceback"]

\* mutant: the range is one page too long
HasNextPageInclusive(p, n) == p + 1 <= n

\* for page in range(0, n): is there a next iteration after page p
HasNextPage(p, n) == p + 1 < n

\* if no_shoeisha_items_found(response.text): break
ShoeishaBreaks(html_text) == no_shoeisha_items_found(html_text)

\* mutant: a page with a single record ends the category as well
GihyoBreaksOnShortPage(res) == Len(res) <= 1

\* if len(res) == 0: break
GihyoBreaks(res) == Len(res) = 0

\* mutant: the test of args.post is inverted
SelectedSinkSwapped(post) == IF post = None THEN "post_books" ELSE "write_csv"

\* if args.post is None: write_csv(result) else: post_books(args.post, result)
SelectedSink(post) == IF post = None THEN "write_csv" ELSE "post_books"

\* lines print() adds for one analysed page
Lines(ex, done) ==
    (IF ex.price_failed THEN {"format_price failed"} ELSE {})
        \cup (IF done THEN {"DONE"} ELSE {})

Init ==
    /\ pc = "oreilly"
    /\ args_post \in {None, <<"https://example.com/books">>}
    /\ order \in CategoryOrders
    /\ endless \in BOOLEAN
    \* the endless web is explored for the source order and the file sink
    /\ endless => (order = SourceOrder /\ args_post = None)
    /\ ci = 0
    /\ page = 0
    /\ url = NoUrl
    /\ response = NoResponse
    /\ transport = [call |-> "none", outcome |-> "none"]
    /\ result = <<>>
    /\ fetches = 0
    /\ printed = {}
    /\ exitStatus = Running
    /\ sink = <<>>
    /\ csv = <<>>
    /\ posts = 0
    /\ request = NoRequest
    /\ post_status = 0
    /\ currency = <<>>
    /\ pattern = PLAIN_PATTERN
    /\ formatted = Pending

\* get(url, timeout=30) raises: control leaves the try block for the handler
GetRaises ==
    \E e \in RequestExceptions :
        /\ transport' = [call |-> "get", outcome |-> e]
        /\ pc' = RequestExceptionHandler.pc
        /\ exitStatus' = RequestExceptionHandler.exitStatus
        /\ printed' = printed \cup {RequestExceptionHandler.line}
        /\ UNCHANGED <<response, result, ci, page>>

\* an adapter raises (ValueError from strptime): nothing in main catches it
Raises(ex) ==
    /\ pc' = UncaughtException.pc
    /\ exitStatus' = UncaughtException.exitStatus
    /\ printed' = printed \cup Lines(ex, FALSE) \cup {UncaughtException.line}
    /\ UNCHANGED <<result, ci, page>>

\* the Shoeisha loop is left: the first category, or the output when there is none
EnterGihyo ==
    /\ pc' = "gihyo"
    /\ ci' = 1
    /\ page' = 0

\* the inner loop of a category is left: the next category, or the output
NextCategory ==
    IF ci < Len(order)
    THEN pc' = "gihyo" /\ ci' = ci + 1 /\ page' = 0
    ELSE pc' = "output" /\ UNCHANGED <<ci, page>>

\* lines 66-68
FetchOreilly ==
    /\ pc = "oreilly"
    /\ url' = [site |-> OREILLY_BASE_URL, category |-> "", page |-> 0]
    /\ fetches' = fetches + 1
    /\ \/ GetRaises
       \/ \E r \in Responses(OREILLY_BASE_URL, 0) :
            LET ex == analyze_oreilly_books(r.text)
            IN /\ transport' = [call |-> "get", outcome |-> "ok"]
               /\ response' = r
               /\ IF ex.raised THEN Raises(ex)
                  ELSE /\ result' = result \o ex.books
                       /\ printed' = printed \cup Lines(ex, TRUE)
                       /\ exitStatus' = exitStatus
                       /\ pc' = "shoeisha"
                       /\ page' = 0
                       /\ ci' = ci
    /\ UNCHANGED <<args_post, order, endless, sink, csv, posts, request, post_status,
                   currency, pattern, formatted>>

\* lines 71-78, one iteration
FetchShoeisha ==
    /\ pc = "shoeisha"
    /\ url' = [site |-> SHOEISHA_BASE_URL, category |-> "", page |-> page]
    /\ fetches' = fetches + 1
    /\ \/ GetRaises
       \/ \E r \in Responses(SHOEISHA_BASE_URL, page) :
            /\ transport' = [call |-> "get", outcome |-> "ok"]
            /\ response' = r
            /\ IF ShoeishaBreaks(r.text)
               THEN /\ EnterGihyo
                    /\ UNCHANGED <<result, printed, exitStatus>>
               ELSE LET ex == analyze_shoeisha_books(r.text)
                    IN IF ex.raised THEN Raises(ex)
                       ELSE /\ result' = result \o ex.books
                            /\ printed' = printed \cup Lines(ex, TRUE)
                            /\ exitStatus' = exitStatus
                            /\ IF HasNextPage(page, ShoeishaPages)
                               THEN pc' = "shoeisha" /\ page' = page + 1 /\ ci' = ci
                               ELSE EnterGihyo
    /\ UNCHANGED <<args_post, order, endless, sink, csv, posts, request, post_status,
                   currency, pattern, formatted>>

\* lines 81-89, one iteration of the inner loop
FetchGihyo ==
    /\ pc = "gihyo"
    /\ url' = [site |-> GIHYO_BASE_URL, category |-> order[ci], page |-> page]
    /\ fetches' = fetches + 1
    /\ \/ GetRaises
       \/ \E r \in Responses(GIHYO_BASE_URL, page) :
            LET ex == analyze_gihyo_books(r.text)
            IN /\ transport' = [call |-> "get", outcome |-> "ok"]
               /\ response' = r
               /\ IF ex.raised THEN Raises(ex)
                  ELSE IF GihyoBreaks(ex.books)
                  THEN /\ NextCategory
                       /\ printed' = printed \cup Lines(ex, FALSE)
                       /\ UNCHANGED <<result, exitStatus>>
                  ELSE /\ result' = result \o ex.books
                       /\ printed' = printed \cup Lines(ex, TRUE)
                       /\ exitStatus' = exitStatus
                       /\ IF HasNextPage(page, GihyoPages)
                          THEN pc' = "gihyo" /\ page' = page + 1 /\ ci' = ci
                          ELSE NextCategory
    /\ UNCHANGED <<args_post, order, endless, sink, csv, posts, request, post_status,
                   currency, pattern, formatted>>

(***************************************************************************)
(* write_csv                                                               *)
(***************************************************************************)
\* strftime("%Y-%m-%d")
DateOnly(date) == <<date.year, "-", date.month, "-", date.day>>

\* the csv writer renders None as the empty field
CsvRecord(book) ==
    <<book.isbn, IF book.price = None THEN <<>> ELSE book.price,
      DateOnly(book.published_at), book.publisher>>

CsvHeader == <<"isbn", "price", "published_at", "publisher">>

\* lines 91-93 and write_csv
WriteCsv ==
    /\ pc = "output"
    /\ SelectedSink(args_post) = "write_csv"
    /\ sink' = Append(sink, [fn |-> "write_csv", books |-> result])
    /\ csv' = <<CsvHeader>> \o [i \in 1..Len(result) |-> CsvRecord(result[i])]
    /\ pc' = "done"
    /\ exitStatus' = 0
    /\ UNCHANGED <<args_post, order, endless, ci, page, url, response, transport, result,
                   fetches, printed, posts, request, post_status,
                   currency, pattern, formatted>>

(***************************************************************************)
(* post_books                                                              *)
(***************************************************************************)
\* isoformat() of the date at midnight in the +09:00 zone
IsoFormat(date) == <<date.year, "-", date.month, "-", date.day, "T00:00:00+09:00">>

Payload(book) ==
    [isbn |-> book.isbn, price |-> book.price,
     publishedAt |-> IsoFormat(book.published_at), publisher |-> book.publisher]

\* mutant: only 201 keeps the loop running
LoopContinuesOnCreated(status_code) == status_code = HTTP_CREATED

\* the status leaves the loop running: 409 is reported and skipped, 201 is success,
\* anything else breaks
LoopContinues(status_code) ==
    IF status_code = HTTP_CONFLICT THEN TRUE
    ELSE IF status_code # HTTP_CREATED THEN FALSE
    ELSE TRUE

PostLines(status_code) ==
    IF status_code = HTTP_CONFLICT THEN {"already created"}
    ELSE IF status_code # HTTP_CREATED THEN {"post failed"}
    ELSE {}

\* post_books returns normally, also after its break, and main falls off its end
PostBooksReturns == [pc |-> "done", exitStatus |-> 0]

\* lines 94-95: the call of post_books; an empty list ends the loop at once
CallPostBooks ==
    /\ pc = "output"
    /\ SelectedSink(args_post) = "post_books"
    /\ sink' = Append(sink, [fn |-> "post_books", books |-> result])
    /\ IF Len(result) = 0
       THEN pc' = PostBooksReturns.pc /\ exitStatus' = PostBooksReturns.exitStatus
       ELSE pc' = "post" /\ exitStatus' = exitStatus
    /\ UNCHANGED <<args_post, order, endless, ci, page, url, response, transport, result,
                   fetches, printed, csv, posts, request, post_status,
                   currency, pattern, formatted>>

\* one iteration of the loop of post_books
PostBook ==
    /\ pc = "post"
    /\ posts < Len(result)
    /\ posts' = posts + 1
    /\ request' = Payload(result[posts + 1])
    /\ \/ \E e \in RequestExceptions :
            /\ transport' = [call |-> "post", outcome |-> e]
            /\ pc' = RequestExceptionHandler.pc
            /\ exitStatus' = RequestExceptionHandler.exitStatus
            /\ printed' = printed \cup {RequestExceptionHandler.line}
            /\ UNCHANGED post_status
       \/ \E st \in PostStatuses :
            /\ transport' = [call |-> "post", outcome |-> "ok"]
            /\ post_status' = st
            /\ printed' = printed \cup PostLines(st)
            /\ IF LoopContinues(st) /\ posts + 1 < Len(result)
               THEN pc' = "post" /\ exitStatus' = exitStatus
               ELSE pc' = PostBooksReturns.pc /\ exitStatus' = PostBooksReturns.exitStatus
    /\ UNCHANGED <<args_post, order, endless, ci, page, url, response, result,
                   fetches, sink, csv, currency, pattern, formatted>>

Next ==
    \/ FetchOreilly
    \/ FetchShoeisha
    \/ FetchGihyo
    \/ WriteCsv
    \/ CallPostBooks
    \/ PostBook

Spec == Init /\ [][Next]_vars

\* every call of main returns or raises: the program takes its next step
FairSpec == Init /\ [][Next]_vars /\ WF_vars(Next)

(***************************************************************************)
(* format_price on its own: the call applied to a bounded set of texts.    *)
(***************************************************************************)
PriceChars == {"0", "3", ",", "円", "x"}

RECURSIVE TextsOfLen(_)
TextsOfLen(n) ==
    IF n = 0 THEN {<<>>}
    ELSE {<<c>> \o t : c \in PriceChars, t \in TextsOfLen(n - 1)}

\* every text of at most MaxPriceLen characters
ShortTexts == UNION {TextsOfLen(n) : n \in 0..MaxPriceLen}

GroupDigits == {"0", "3", "9"}
Heads == UNION {[1..n -> {"1", "3"}] : n \in 1..3}
Groups == {<<",", a, b, c>> : a \in {"9"}, b \in GroupDigits, c \in {"0", "6"}}

RECURSIVE Numerals(_)
Numerals(k) ==
    IF k = 0 THEN Heads
    ELSE Numerals(k - 1) \cup {n \o g : n \in Numerals(k - 1), g \in Groups}

\* digit-grouped numerals of up to MaxGroups groups, alone, followed by the
\* currency glyph, and inside other text
NumeralTexts ==
    UNION {{n, n \o <<"円">>, <<"x">> \o n \o <<"円", "x">>} : n \in Numerals(MaxGroups)}

PriceTexts == ShortTexts \cup NumeralTexts \cup {OREILLY_PRICE, YEN_PRICE, NO_PRICE}

InitPrice ==
    /\ pc = "format_price"
    /\ currency \in PriceTexts
    /\ pattern \in Patterns
    /\ formatted = Pending
    /\ args_post = None
    /\ order = SourceOrder
    /\ endless = FALSE
    /\ ci = 0
    /\ page = 0
    /\ url = NoUrl
    /\ response = NoResponse
    /\ transport = [call |-> "none", outcome |-> "none"]
    /\ result = <<>>
    /\ fetches = 0
    /\ printed = {}
    /\ exitStatus = Running
    /\ sink = <<>>
    /\ csv = <<>>
    /\ posts = 0
    /\ request = NoRequest
    /\ post_status = 0

\* lines 272-278
FormatPrice ==
    /\ pc = "format_price"
    /\ formatted' = format_price(currency, pattern)
    /\ printed' = printed \cup
            (IF PriceFailed(currency, pattern) THEN {"format_price failed"} ELSE {})
    /\ pc' = "returned"
    /\ UNCHANGED <<args_post, order, endless, ci, page, url, response, transport, result,
                   fetches, exitStatus, sink, csv, posts, request, post_status,
                   currency, pattern>>

NextPrice == FormatPrice

SpecPrice == InitPrice /\ [][NextPrice]_vars

(***************************************************************************)
(* Properties.                                                             *)
(***************************************************************************)
GetOk == transport = [call |-> "get", outcome |-> "ok"]
GetFailed == transport.call = "get" /\ transport.outcome \in RequestExceptions
PostOk == transport = [call |-> "post", outcome |-> "ok"]
Terminated == pc \in {"done", "aborted", "crashed"}

\* C1: a get() that raises a network error or a timeout aborts the run at once:
\* the handler's diagnostic is printed, the exit status is non-zero, no sink has
\* been or will be invoked, the records accumulated so far are not output, and
\* no further fetch or submission is issued.
C1_FetchFailureAborts ==
    [][/\ GetFailed' =>
            /\ pc' = "aborted"
            /\ exitStatus' \notin {Running, 0}
            /\ "RequestException error occurred" \in printed'
            /\ sink' = <<>> /\ csv' = <<>> /\ posts' = 0
       /\ GetFailed => UNCHANGED <<fetches, sink, csv, posts, result, exitStatus>>]_vars

\* a Gihyo fetch fails after records have been accumulated
C1_Witness ==
    /\ GetFailed
    /\ url.site = GIHYO_BASE_URL
    /\ Len(result) >= 1
    /\ fetches >= 3

\* C2: a response with a non-success HTTP status aborts the run with a non-zero
\* exit; its body reaches no adapter and no sink is invoked.
C2_NonSuccessStatusAborts ==
    (GetOk /\ ~IsSuccess(response.status_code)) =>
        (pc = "aborted" /\ exitStatus \notin {Running, 0} /\ sink = <<>>)

\* C3: post_books submits the books in accumulation order; the k-th book is
\* submitted if and only if every earlier submission was answered 201 or 409;
\* a 409 is logged and the loop goes on, any other non-201 status ends the loop.
C3_SubmissionOrder ==
    [][/\ posts' # posts =>
            /\ posts' = posts + 1
            /\ posts' <= Len(result)
            /\ request'.isbn = result[posts'].isbn
            /\ request'.price = result[posts'].price
            /\ request'.publisher = result[posts'].publisher
            /\ posts > 0 => (PostOk /\ post_status \in {201, 409})
       /\ (pc = "output" /\ args_post # None /\ Len(result) > 0) =>
            (pc' = "post" /\ posts' = 0)
       /\ (posts' # posts /\ PostOk' /\ post_status' \in {201, 409} /\ posts' < Len(result)) =>
            pc' = "post"
       /\ (posts' # posts /\ PostOk' /\ post_status' = 409) =>
            "already created" \in printed'
       /\ (posts' # posts /\ PostOk' /\ post_status' \notin {201, 409}) =>
            (pc' # "post" /\ "post failed" \in printed')
       /\ pc' = "post" => posts' < Len(result)]_vars

\* the first submission was answered 409 and the second book was submitted
C3_Witness ==
    /\ posts = 2
    /\ "already created" \in printed
    /\ PostOk /\ post_status = 201
    /\ request.isbn = result[2].isbn
    /\ result[1].isbn # result[2].isbn

\* C4: a run ends either completed with its output or aborted with a non-zero
\* exit; a submission answered with a status other than 201 or 409 ends the run
\* as an abort with a non-zero exit status.
C4_FatalSubmissionExitsNonZero ==
    (Terminated /\ PostOk /\ post_status \notin {201, 409}) =>
        exitStatus \notin {Running, 0}

\* C5: Shoeisha pages are requested as 0, 1, 2, ... up to 500 at most; the first
\* page with the no-results phrase ends the pagination and adds no record; a page
\* without entries and without the phrase is followed by the next page number.
C5_ShoeishaPagination ==
    [][(fetches' # fetches /\ url'.site = SHOEISHA_BASE_URL) =>
            /\ url'.page <= 500
            /\ IF url.site = SHOEISHA_BASE_URL
               THEN /\ url'.page = url.page + 1
                    /\ GetOk /\ ~response.text.phrase
               ELSE /\ url'.page = 0
                    /\ url.site = OREILLY_BASE_URL
            /\ (GetOk' /\ response'.text.phrase) =>
                    (result' = result /\ pc' = "gihyo")
            /\ (GetOk' /\ ~response'.text.phrase /\ response'.text.rows = <<>>
                    /\ url'.page < 500) =>
                    (pc' = "shoeisha" /\ page' = url'.page + 1 /\ result' = result)
            /\ (GetOk' /\ ~response'.text.phrase /\ url'.page = 500) =>
                    pc' \in {"gihyo", "crashed"}]_vars

\* page 0 had no entries and no phrase, page 1 carries the phrase (and entries):
\* the pagination ended there without a record
C5_Witness ==
    /\ url.site = SHOEISHA_BASE_URL /\ url.page = 1
    /\ GetOk /\ response.text.phrase /\ response.text.rows # <<>>
    /\ pc = "gihyo"
    /\ result = <<>>

\* C6: every one of the thirteen categories is visited exactly once, each from
\* page 0 and for at most 101 pages; a category ends exactly at its first page
\* without records, a page with records is followed by the next page, and the end
\* of a category leads to the next category.
C6_GihyoPagination ==
    [][/\ (fetches' # fetches /\ url'.site = GIHYO_BASE_URL) =>
            /\ Len(order) = 13
            /\ {order[i] : i \in 1..Len(order)} = gihyo_category_params
            /\ ci \in 1..13 /\ url'.category = order[ci]
            /\ url'.page <= 100
            /\ IF url.site = GIHYO_BASE_URL /\ url.category = url'.category
               THEN /\ url'.page = url.page + 1
                    /\ GetOk /\ Len(response.text.rows) >= 1
               ELSE /\ url'.page = 0
                    /\ IF url.site = GIHYO_BASE_URL
                       THEN ci > 1 /\ url.category = order[ci - 1]
                       ELSE ci = 1 /\ url.site = SHOEISHA_BASE_URL
            /\ (GetOk' /\ pc' # "crashed") =>
                 IF Len(response'.text.rows) >= 1 /\ url'.page < 100
                 THEN pc' = "gihyo" /\ ci' = ci /\ page' = url'.page + 1
                 ELSE /\ Len(response'.text.rows) = 0 => result' = result
                      /\ IF ci < 13
                         THEN pc' = "gihyo" /\ ci' = ci + 1 /\ page' = 0
                         ELSE pc' = "output"
       /\ pc' \in {"output", "post", "done"} => ci' = 13]_vars

\* the first category ran into its cap of 101 pages and the second one is entered
C6_Witness ==
    /\ url.site = GIHYO_BASE_URL /\ url.page = 100
    /\ GetOk /\ Len(response.text.rows) >= 1
    /\ pc = "gihyo" /\ ci = 2 /\ page = 0

\* the entries of the page just fetched are the tail of result, in page order
Accumulated ==
    /\ Len(result') = Len(result) + Len(response'.text.rows)
    /\ SubSeq(result', 1, Len(result)) = result
    /\ \A i \in 1..Len(response'.text.rows) :
            result'[Len(result) + i].isbn = response'.text.rows[i].isbn

\* C7: once the three paginations are through, exactly one sink is invoked,
\* once, after the last fetch, with the whole accumulated list: post_books when
\* a destination URL is configured, write_csv when not.
C7_ExactlyOneSink ==
    [][/\ Len(sink') <= 1
       /\ pc' = "output" => sink' = <<>>
       /\ pc = "output" =>
            /\ Len(sink') = 1
            /\ sink'[1].books = result
            /\ sink'[1].fn = (IF args_post = None THEN "write_csv" ELSE "post_books")
            /\ sink'[1].fn = "write_csv" => (pc' = "done" /\ Len(csv') = 1 + Len(result))
       /\ sink # <<>> => (sink' = sink /\ fetches' = fetches /\ result' = result)
       /\ pc' \in {"post", "done"} => Len(sink') = 1
       /\ csv' # <<>> => (sink' # <<>> /\ sink'[1].fn = "write_csv")
       /\ posts' > 0 => (sink' # <<>> /\ sink'[1].fn = "post_books")
       /\ (fetches' # fetches /\ GetOk' /\ pc' \in {"shoeisha", "gihyo", "output"}) =>
            IF url'.site = SHOEISHA_BASE_URL /\ response'.text.phrase
            THEN result' = result
            ELSE Accumulated]_vars

\* the file sink has received two records of two publishers
C7_Witness ==
    /\ pc = "done"
    /\ Len(sink) = 1 /\ sink[1].fn = "write_csv"
    /\ Len(sink[1].books) = 2
    /\ sink[1].books[1].publisher # sink[1].books[2].publisher
    /\ Len(csv) = 3

\* the page the last get() returned holds an entry whose date text does not parse
UnparsableDate ==
    \E i \in 1..Len(response.text.rows) :
        strptime(response.text.rows[i].date, DateFormatOf(url.site)) = ValueError

\* the driver hands the page to the site's adapter
Analysed == ~(url.site = SHOEISHA_BASE_URL /\ response.text.phrase)

\* C8, as stated: an unparsable date text of any record on any fetched page
\* propagates, nothing of that page is accumulated and no sink is invoked.
C8_DateMismatchAnyPage ==
    [][/\ (fetches' # fetches /\ GetOk' /\ UnparsableDate') =>
            /\ pc' = "crashed"
            /\ result' = result
            /\ sink' = <<>>
       /\ pc = "crashed" => UNCHANGED <<result, sink, csv, posts, fetches>>]_vars

\* C8, amended: an unparsable date text of any record on any fetched page that is
\* handed to its adapter (every page except a Shoeisha page carrying the
\* no-results phrase) propagates, nothing of that page is accumulated, and the
\* run ends without a sink.
C8_DateMismatchAnalysedPage ==
    [][/\ (fetches' # fetches /\ GetOk' /\ UnparsableDate' /\ Analysed') =>
            /\ pc' = "crashed"
            /\ exitStatus' \notin {Running, 0}
            /\ result' = result
            /\ sink' = <<>>
       /\ pc = "crashed" => UNCHANGED <<result, sink, csv, posts, fetches>>]_vars

\* a page with a good entry followed by an entry dated 30 February: neither is kept
C8_Witness ==
    /\ pc = "crashed"
    /\ GetOk /\ UnparsableDate /\ Analysed
    /\ Len(response.text.rows) = 2
    /\ Len(result) >= 1
    /\ \A i \in 1..Len(result) : result[i].publisher # PublisherOf(url.site)
    /\ sink = <<>>

\* the text is a digit-grouped numeral (followed by the glyph when the pattern
\* asks for it), possibly inside text without digits and commas
Numeric == Digits \cup {","}
FirstNumeric(s) == CHOOSE i \in 1..Len(s) : s[i] \in Numeric /\ \A j \in 1..(i - 1) : s[j] \notin Numeric
LastNumeric(s) == CHOOSE i \in 1..Len(s) : s[i] \in Numeric /\ \A j \in (i + 1)..Len(s) : s[j] \notin Numeric
NumeralOf(s) == SubSeq(s, FirstNumeric(s), LastNumeric(s))

\* commas exactly at every fourth place from the right, digits elsewhere
IsGrouped(g) ==
    /\ Len(g) >= 1 /\ Len(g) % 4 # 0
    /\ \A i \in 1..Len(g) :
         IF (Len(g) - i + 1) % 4 = 0 THEN g[i] = "," ELSE g[i] \in Digits

MatchesNumeralPattern(s, pat) ==
    /\ \E i \in 1..Len(s) : s[i] \in Numeric
    /\ IsGrouped(NumeralOf(s))
    /\ pat.yen => (LastNumeric(s) < Len(s) /\ s[LastNumeric(s) + 1] = "円")

\* the digits of a text, in order
RECURSIVE DigitsOf(_)
DigitsOf(s) ==
    IF s = <<>> THEN <<>>
    ELSE IF Head(s) \in Digits THEN <<Head(s)>> \o DigitsOf(Tail(s))
    ELSE DigitsOf(Tail(s))

\* the number a text denotes once everything but its digits is dropped, as
\* decimal digits without leading zeros
RECURSIVE DigitsValue(_)
DigitsValue(s) ==
    LET d == DigitsOf(s)
    IN IF Len(d) > 1 /\ Head(d) = "0" THEN DigitsValue(Tail(d)) ELSE d

\* a yen string of the ja_JP locale: the sign, then a grouped numeral without
\* leading zero
IsYenString(s) ==
    /\ Len(s) >= 2 /\ s[1] = "￥"
    /\ IsGrouped(Tail(s))
    /\ (Len(s) > 2 => s[2] # "0")

\* C9: for every price text that matches the site's numeral pattern, format_price
\* returns a currency string whose amount is the digit-grouped number of the text
\* with its separators removed.
C9_PriceAmount ==
    (pc = "returned" /\ MatchesNumeralPattern(currency, pattern)) =>
        /\ formatted # None
        /\ IsYenString(formatted)
        /\ DigitsValue(formatted) = DigitsValue(NumeralOf(currency))

\* "3,960円" with the trailing-glyph pattern gives the yen string of 3960
C9_Witness ==
    /\ pc = "returned"
    /\ currency = YEN_PRICE /\ pattern = YEN_PATTERN
    /\ formatted = <<"￥", "3", ",", "9", "6", "0">>

\* C10: provided every call returns or raises, the run terminates, with at most
\* 1 + 501 + 13 * 101 = 1815 fetches and at most one submission per book.
C10_Terminates ==
    /\ <>Terminated
    /\ [](fetches <= 1 + 501 + 13 * 101)
    /\ [](posts <= Len(result))

\* a run that met both caps in full has ended
C10_Witness ==
    /\ Terminated
    /\ fetches = 1815
    /\ Len(result) = 1815

====
